---- MODULE Spec2Model ----
(***************************************************************************)
(* Model of the English-learning Telegram bot in src/main.py.              *)
(*                                                                         *)
(* State: the four PostgreSQL tables the bot creates (users, common_words, *)
(* user_words, user_stats), the next-step handler telebot keeps per chat,  *)
(* and the last message the bot sent.  One action per message handler.     *)
(* Every handler runs against the database inside one transaction, so a    *)
(* handler is one atomic step.                                             *)
(*                                                                         *)
(* Strings are sequences of characters over a reduced alphabet; a button   *)
(* caption or a /command is one indivisible character of that alphabet.    *)
(***************************************************************************)
EXTENDS Integers, Sequences, FiniteSets, Bags, TLC

(***************************************************************************)
(* Bounds of the model.                                                    *)
(***************************************************************************)
\* highest number of rows in user_words
MaxUserWords == 2
\* highest number of rows in user_stats
MaxStats == 2
\* highest number of quiz buttons dispatched before the first of them has
\* registered its question
MaxTogether == 2

Users == {"u1", "u2"}
\* "c1" is the private chat of u1; "g" is a group chat with both users
Chats == {"c1", "g"}

(***************************************************************************)
(* Strings.                                                                *)
(***************************************************************************)
Space == " "
Dash == "-"

\* str.lower() on one character
LowerChar(ch) ==
    CASE ch = "A" -> "a"
      [] ch = "B" -> "b"
      [] ch = "K" -> "k"
      [] ch = "Z" -> "z"
      [] OTHER -> ch

\* lower that leaves the text as it is
lowerUnchanged(s) == s

\* str.lower()
lower(s) == IF s = <<>> THEN <<>> ELSE [i \in 1..Len(s) |-> LowerChar(s[i])]

RECURSIVE lstrip(_)
lstrip(s) == IF s # <<>> /\ Head(s) = Space THEN lstrip(Tail(s)) ELSE s

RECURSIVE rstrip(_)
rstrip(s) ==
    IF s # <<>> /\ s[Len(s)] = Space THEN rstrip(SubSeq(s, 1, Len(s) - 1)) ELSE s

\* str.strip()
strip(s) == rstrip(lstrip(s))

\* index of the first '-' of s, 0 when there is none
FirstDash(s) ==
    IF \E i \in 1..Len(s) : s[i] = Dash
    THEN CHOOSE i \in 1..Len(s) :
             s[i] = Dash /\ \A j \in 1..(i - 1) : s[j] # Dash
    ELSE 0

\* text.split('-', 1): one part without a '-', else the parts around the first
split(s) ==
    IF FirstDash(s) = 0
    THEN <<s>>
    ELSE <<SubSeq(s, 1, FirstDash(s) - 1), SubSeq(s, FirstDash(s) + 1, Len(s))>>

\* [part.strip() for part in text.split('-', 1)]
parts(text) == [i \in 1..Len(split(text)) |-> strip(split(text)[i])]

\* ParseOk without the test of the translation
ParseOkEnglishOnly(text) ==
    /\ Len(parts(text)) = 2
    /\ parts(text)[1] # <<>>

\* the unpacking "english, russian = ..." and the emptiness test succeed
ParseOk(text) ==
    /\ Len(parts(text)) = 2
    /\ parts(text)[1] # <<>>
    /\ parts(text)[2] # <<>>

(***************************************************************************)
(* Message texts.                                                          *)
(***************************************************************************)
BtnQuiz == <<"[Nachat test]">>
BtnWords == <<"[Moy slovar]">>
BtnAdd == <<"[Dobavit slovo]">>
BtnRemove == <<"[Udalit slovo]">>
BtnStats == <<"[Statistika]">>
BtnLevel == <<"[Uroven slozhnosti]">>
BtnHelp == <<"[Pomosch]">>
BtnMenu == <<"[Glavnoe menyu]">>
BtnNext == <<"[Sleduyuschiy vopros]">>
CmdStart == <<"/start">>
CheckMark == "[v] "

\* DIFFICULTY_LEVELS: key -> name, words_limit
DIFFICULTY_LEVELS ==
    [easy |-> [name |-> <<"[Legkiy]">>, words_limit |-> 10],
     medium |-> [name |-> <<"[Sredniy]">>, words_limit |-> 20],
     hard |-> [name |-> <<"[Slozhnyy]">>, words_limit |-> 50]]

Levels == DOMAIN DIFFICULTY_LEVELS

\* message.text.replace(CheckMark, "")
RECURSIVE RemoveCheck(_)
RemoveCheck(s) ==
    IF s = <<>> THEN <<>>
    ELSE IF Head(s) = CheckMark THEN RemoveCheck(Tail(s))
    ELSE <<Head(s)>> \o RemoveCheck(Tail(s))

IsLevelText(t) == \E k \in Levels : RemoveCheck(t) = DIFFICULTY_LEVELS[k].name

LevelOf(t) == CHOOSE k \in Levels : RemoveCheck(t) = DIFFICULTY_LEVELS[k].name

\* free texts a user types: word pairs, malformed pairs, answers, headwords
FreeTexts ==
    { <<"A", Space, Dash, Space, "K">>,
      <<Dash, "k">>,
      <<"a", Dash, Space>>,
      <<"k">>,
      <<"K">>,
      <<"a">> }

Texts ==
    { BtnQuiz, BtnWords, BtnAdd, BtnRemove, BtnStats, BtnLevel, BtnHelp,
      BtnMenu, BtnNext, CmdStart,
      DIFFICULTY_LEVELS["easy"].name,
      <<CheckMark>> \o DIFFICULTY_LEVELS["medium"].name,
      DIFFICULTY_LEVELS["hard"].name }
    \cup FreeTexts

(***************************************************************************)
(* The database.                                                           *)
(***************************************************************************)
\* the seed of common_words, reduced to one row of a word_type that every
\* difficulty admits, one that 'easy' leaves out and one that only 'hard'
\* admits; word_id is the position (SERIAL, first value 1).  word_type:
\* "color" is 'цвет', "number" is 'число', "pronoun" is 'местоимение',
\* "animal" is 'животное', "difficult" is 'сложное'.
SeedWords ==
    << [english_word |-> <<"red">>, russian_translation |-> <<"k">>,
        word_type |-> "color"],
       [english_word |-> <<"cat">>, russian_translation |-> <<"c">>,
        word_type |-> "animal"],
       [english_word |-> <<"abundance">>, russian_translation |-> <<"i">>,
        word_type |-> "difficult"] >>

\* initialize_database seeds common_words only when it finds the table empty:
\* a table filled before the first start is kept as it is.  Such a table,
\* here with nothing but a difficult word
PresetWords ==
    << [english_word |-> <<"conundrum">>, russian_translation |-> <<"g">>,
        word_type |-> "difficult"] >>

\* no row in users
NoRow == "absent"

\* a row of users whose difficulty IS NULL
NullTier == "null"

\* what the column users.difficulty (VARCHAR(10)) can hold: a key of
\* DIFFICULTY_LEVELS, NULL, or a text that is no key
StoredTiers == Levels \cup {NullTier, "expert"}

\* bot.register_next_step_handler: nothing registered for the chat.  telebot
\* keeps a list of handlers per chat and runs all of them on the next
\* message of the chat: rest holds the handlers registered behind the first.
NoHandler ==
    [fn |-> "none", correct_answer |-> <<>>, source_type |-> "none",
     word_id |-> 0, word_dict |-> {}, rest |-> <<>>]

\* outcomes of safe_connect() and of the queries that follow it: a
\* connection and no failure, no connection, a query that raises
DbOutcomes == {"ok", "down", "error"}

\* who sends messages where
Senders == {<<c, u>> : c \in Chats, u \in Users} \cap
           {<<"c1", "u1">>, <<"g", "u1">>, <<"g", "u2">>}

VARIABLES
    common_words,   \* table common_words: sequence of rows, word_id the position
    users,          \* table users: user_id -> difficulty, or NoRow
    user_words,     \* table user_words: sequence of rows in insertion order
    user_stats,     \* table user_stats: the bag of its rows (user_id, word_id,
                    \* is_correct)
    next_step,      \* telebot's next-step handler of each chat
    reply           \* the message handled last and what the bot sent for it

vars == <<common_words, users, user_words, user_stats, next_step, reply>>

CommonIds == 1..Len(common_words)

Range(f) == {f[i] : i \in DOMAIN f}

Min(a, b) == IF a < b THEN a ELSE b

\* ORDER BY RANDOM() LIMIT n over the rows S
SampleRows(S, n) == {T \in SUBSET S : Cardinality(T) = Min(n, Cardinality(S))}

\* the row of user_words with this user_word_id
UserRow(id) == CHOOSE r \in Range(user_words) : r.user_word_id = id

\* ActiveIds without "AND is_active = TRUE"
ActiveIdsWithRemoved(u) ==
    {r.user_word_id : r \in {x \in Range(user_words) : x.user_id = u}}

\* WHERE user_id = u AND is_active = TRUE
ActiveIds(u) ==
    {r.user_word_id : r \in {x \in Range(user_words) : x.user_id = u /\ x.is_active}}

\* SELECT COUNT(*) FROM user_words WHERE user_id = u AND is_active = TRUE
ActiveCount(u) == Cardinality(ActiveIds(u))

\* SELECT COUNT(*) FROM user_stats WHERE user_id = u AND is_correct = TRUE
CorrectCount(u) ==
    BagCardinality([e \in {x \in BagToSet(user_stats) : x.user_id = u /\ x.is_correct}
                       |-> user_stats[e]])

\* SELECT COUNT(*) FROM user_stats WHERE user_id = u
TotalCount(u) ==
    BagCardinality([e \in {x \in BagToSet(user_stats) : x.user_id = u}
                       |-> user_stats[e]])

\* what bot.send_message sent for the message (c, u, t); msg "none": nothing.
\* wrong: the rows the wrong options of a question were fetched from
Sent(c, u, t, h, db, msg, kb) ==
    [chat |-> c, user |-> u, text |-> t, handler |-> h, db |-> db, msg |-> msg,
     keyboard |-> kb, options |-> EmptyBag, wrong |-> {}, word |-> <<>>,
     word_count |-> 0,
     correct_answers |-> 0, total_answers |-> 0, accuracy |-> 0]

\* the first matching @bot.message_handler, in registration order
Route(t) ==
    CASE t = CmdStart -> "start"
      [] t = BtnHelp -> "show_help"
      [] t = BtnLevel -> "show_difficulty_menu"
      [] IsLevelText(t) -> "set_difficulty_level"
      [] t = BtnQuiz -> "start_quiz"
      [] t = BtnNext -> "start_quiz"
      [] t = BtnMenu -> "handle_back_button"
      [] t = BtnWords -> "show_my_words"
      [] t = BtnAdd -> "add_word"
      [] t = BtnRemove -> "remove_word"
      [] t = BtnStats -> "show_stats"
      [] OTHER -> "handle_text"

\* Route, tabulated over the texts of the model
Routes == [t \in Texts |-> Route(t)]

Init ==
    /\ common_words \in {SeedWords, PresetWords}
    /\ users = [u \in Users |-> NoRow]
    /\ user_words = <<>>
    /\ user_stats = EmptyBag
    /\ next_step = [c \in Chats |-> NoHandler]
    /\ reply = Sent("c1", "u1", <<>>, "none", "unused", "none", "none")

(***************************************************************************)
(* Registration and difficulty level.                                      *)
(***************************************************************************)
start(c, u, t, db) ==
    /\ next_step[c] = NoHandler
    /\ Routes[t] = "start"
    /\ IF db = "ok"
       THEN /\ users' = IF users[u] = NoRow
                        THEN [users EXCEPT ![u] = "medium"]
                        ELSE users
            /\ reply' = Sent(c, u, t, "start", db, "welcome", "main")
       ELSE \* no connection: return; a failing query: the exception leaves start
            /\ users' = users
            /\ reply' = Sent(c, u, t, "start", db, "none", "none")
    /\ UNCHANGED <<common_words, user_words, user_stats, next_step>>

show_help(c, u, t) ==
    /\ next_step[c] = NoHandler
    /\ Routes[t] = "show_help"
    /\ reply' = Sent(c, u, t, "show_help", "unused", "help", "main")
    /\ UNCHANGED <<common_words, users, user_words, user_stats, next_step>>

\* the captions of the level keyboard, the current level marked
LevelCaptions(current_level) ==
    SetToBag({IF k = current_level
              THEN <<CheckMark>> \o DIFFICULTY_LEVELS[k].name
              ELSE DIFFICULTY_LEVELS[k].name : k \in Levels})

show_difficulty_menu(c, u, t, db) ==
    /\ next_step[c] = NoHandler
    /\ Routes[t] = "show_difficulty_menu"
    /\ reply' =
        IF db = "down"
        THEN Sent(c, u, t, "show_difficulty_menu", db, "db_error", "main")
        ELSE IF db = "error"
        THEN Sent(c, u, t, "show_difficulty_menu", db, "level_error", "main")
        ELSE LET current_level == IF users[u] # NoRow THEN users[u] ELSE "medium"
             IN  IF current_level \notin Levels
                 THEN \* DIFFICULTY_LEVELS[current_level]: KeyError
                      Sent(c, u, t, "show_difficulty_menu", db, "level_error", "main")
                 ELSE [Sent(c, u, t, "show_difficulty_menu", db, "level_menu",
                            "levels")
                         EXCEPT !.options = LevelCaptions(current_level)]
    /\ UNCHANGED <<common_words, users, user_words, user_stats, next_step>>

set_difficulty_level(c, u, t, db) ==
    /\ next_step[c] = NoHandler
    /\ Routes[t] = "set_difficulty_level"
    /\ LET difficulty == LevelOf(t)
       IN  IF db = "ok"
           THEN \* UPDATE users SET difficulty WHERE user_id: no row, no change
                /\ users' = IF users[u] # NoRow
                            THEN [users EXCEPT ![u] = difficulty]
                            ELSE users
                /\ reply' = [Sent(c, u, t, "set_difficulty_level", db,
                                  "level_set", "main")
                               EXCEPT !.options =
                                   SetToBag({DIFFICULTY_LEVELS[difficulty].name})]
           ELSE /\ users' = users
                /\ reply' = Sent(c, u, t, "set_difficulty_level", db,
                                 IF db = "down" THEN "db_error" ELSE "level_error",
                                 "main")
    /\ UNCHANGED <<common_words, user_words, user_stats, next_step>>

(***************************************************************************)
(* Quiz.                                                                   *)
(***************************************************************************)
\* CommonEligible with no WHERE clause
CommonEligibleUnfiltered(difficulty) == CommonIds

\* the WHERE clause on common_words of each difficulty; word_type is never
\* NULL in the seed
CommonEligible(difficulty) ==
    IF difficulty = "easy"
    THEN {i \in CommonIds : common_words[i].word_type \in {"color", "pronoun", "number"}}
    ELSE IF difficulty = "medium"
    THEN {i \in CommonIds : common_words[i].word_type # "difficult"}
    ELSE CommonIds

\* a row (source, word_id) of the combined query, and its columns
Translation(row) ==
    IF row[1] = "common"
    THEN common_words[row[2]].russian_translation
    ELSE UserRow(row[2]).russian_translation

English(row) ==
    IF row[1] = "common"
    THEN common_words[row[2]].english_word
    ELSE UserRow(row[2]).english_word

\* CombinedWords without the second SELECT of the UNION ALL
CombinedWordsCommonOnly(cs, us) == {<<"common", i>> : i \in cs}

\* the rows one run of the combined query can be drawn from
CombinedWords(cs, us) ==
    {<<"common", i>> : i \in cs} \cup {<<"user", i>> : i \in us}

\* WrongRows without "russian_translation != %s" in the second SELECT
WrongRowsAnyUserWord(u, correct_translation) ==
    {<<"common", i>> : i \in {j \in CommonIds :
        common_words[j].russian_translation # correct_translation}}
    \cup {<<"user", i>> : i \in ActiveIds(u)}

\* the rows of the wrong-options query before ORDER BY RANDOM() LIMIT 3
WrongRows(u, correct_translation) ==
    {<<"common", i>> : i \in {j \in CommonIds :
        common_words[j].russian_translation # correct_translation}}
    \cup
    {<<"user", i>> : i \in {j \in ActiveIds(u) :
        UserRow(j).russian_translation # correct_translation}}

\* the bag of the russian_translation column of the rows S
Translations(S) ==
    [s \in {Translation(r) : r \in S}
        |-> Cardinality({r \in S : Translation(r) = s})]

\* options = [correct_translation] + wrong_answers; random.shuffle(options).
\* The keyboard is kept as the bag of its captions, which the order that
\* ORDER BY RANDOM() and the shuffle give them does not change.
Options(correct_translation, wrong) ==
    SetToBag({correct_translation}) (+) Translations(wrong)

\* difficulty_row[0] if difficulty_row and difficulty_row[0] else 'medium'
Difficulty(u) == IF users[u] \notin {NoRow, NullTier} THEN users[u] ELSE "medium"

start_quiz(c, u, t, db) ==
    /\ next_step[c] = NoHandler
    /\ Routes[t] = "start_quiz"
    /\ IF db = "down"
       THEN /\ reply' = Sent(c, u, t, "start_quiz", db, "db_error", "main")
            /\ next_step' = next_step
       ELSE IF db = "error"
       THEN /\ reply' = Sent(c, u, t, "start_quiz", db, "quiz_error", "main")
            /\ next_step' = next_step
       ELSE IF Difficulty(u) \notin Levels
       THEN \* DIFFICULTY_LEVELS[difficulty]: KeyError
            /\ reply' = Sent(c, u, t, "start_quiz", db, "quiz_error", "main")
            /\ next_step' = next_step
       ELSE LET difficulty == Difficulty(u)
                words_limit == DIFFICULTY_LEVELS[difficulty].words_limit
            IN  \E cs \in SampleRows(CommonEligible(difficulty), words_limit),
                   us \in SampleRows(ActiveIds(u), words_limit) :
                    IF CombinedWords(cs, us) = {}
                    THEN /\ reply' = Sent(c, u, t, "start_quiz", db, "no_words", "main")
                         /\ next_step' = next_step
                    ELSE \E word_data \in CombinedWords(cs, us) :
                         \E wrong \in SampleRows(WrongRows(u, Translation(word_data)), 3) :
                            /\ reply' = [Sent(c, u, t, "start_quiz", db, "question",
                                              "options")
                                           EXCEPT !.options =
                                                      Options(Translation(word_data),
                                                              wrong),
                                                  !.wrong = wrong,
                                                  !.word = English(word_data)]
                            /\ next_step' =
                                [next_step EXCEPT ![c] =
                                    [fn |-> "check_quiz_answer",
                                     correct_answer |-> Translation(word_data),
                                     source_type |-> word_data[1],
                                     word_id |-> word_data[2],
                                     word_dict |-> {},
                                     rest |-> <<>>]]
    /\ UNCHANGED <<common_words, users, user_words, user_stats>>

\* start_quiz for a quiz button that telebot dispatched before the
\* question of the button before it was registered (both in one batch of
\* updates, or the first still at work in its worker thread): the chat had
\* no next-step handler when the message was routed, so start_quiz runs
\* again and registers a second handler behind the first.
start_quiz_together(c, u, t, db) ==
    /\ next_step[c].fn = "check_quiz_answer"
    /\ Len(next_step[c].rest) + 1 < MaxTogether
    /\ reply.handler = "start_quiz"
    /\ reply.chat = c
    /\ reply.msg = "question"
    /\ Routes[t] = "start_quiz"
    /\ IF db = "down"
       THEN /\ reply' = Sent(c, u, t, "start_quiz", db, "db_error", "main")
            /\ next_step' = next_step
       ELSE IF db = "error" \/ Difficulty(u) \notin Levels
       THEN /\ reply' = Sent(c, u, t, "start_quiz", db, "quiz_error", "main")
            /\ next_step' = next_step
       ELSE LET difficulty == Difficulty(u)
                words_limit == DIFFICULTY_LEVELS[difficulty].words_limit
            IN  \E cs \in SampleRows(CommonEligible(difficulty), words_limit),
                   us \in SampleRows(ActiveIds(u), words_limit) :
                    IF CombinedWords(cs, us) = {}
                    THEN /\ reply' = Sent(c, u, t, "start_quiz", db, "no_words", "main")
                         /\ next_step' = next_step
                    ELSE \E word_data \in CombinedWords(cs, us) :
                         \E wrong \in SampleRows(WrongRows(u, Translation(word_data)), 3) :
                            /\ reply' = [Sent(c, u, t, "start_quiz", db, "question",
                                              "options")
                                           EXCEPT !.options =
                                                      Options(Translation(word_data),
                                                              wrong),
                                                  !.wrong = wrong,
                                                  !.word = English(word_data)]
                            /\ next_step' =
                                [next_step EXCEPT ![c].rest =
                                    Append(@, [correct_answer |-> Translation(word_data),
                                               source_type |-> word_data[1],
                                               word_id |-> word_data[2]])]
    /\ UNCHANGED <<common_words, users, user_words, user_stats>>

\* the row one check_quiz_answer(message, correct_answer, source_type,
\* word_id) inserts into user_stats
AnswerRow(u, h, t) ==
    [user_id |-> u,
     word_id |-> IF h.source_type = "common" THEN h.word_id ELSE 0 - h.word_id,
     is_correct |-> t = h.correct_answer]

\* the rows the handlers hs insert, each called with the same message
RECURSIVE AnswerRows(_, _, _)
AnswerRows(u, hs, t) ==
    IF hs = <<>> THEN EmptyBag
    ELSE SetToBag({AnswerRow(u, Head(hs), t)}) (+) AnswerRows(u, Tail(hs), t)

\* check_quiz_answer with the INSERT outside of try/except: a failure to save
\* leaves the handler before the feedback is sent
check_quiz_answer_unguarded(c, u, t, db) ==
    /\ next_step[c].fn = "check_quiz_answer"
    /\ next_step' = [next_step EXCEPT ![c] = NoHandler]
    /\ LET saved == db = "ok" /\ users[u] # NoRow
           e == [user_id |-> u,
                 word_id |-> IF next_step[c].source_type = "common"
                             THEN next_step[c].word_id
                             ELSE 0 - next_step[c].word_id,
                 is_correct |-> t = next_step[c].correct_answer]
       IN  /\ saved => BagCardinality(user_stats) < MaxStats
           /\ user_stats' = IF saved /\ t # BtnMenu
                            THEN user_stats (+) SetToBag({e}) ELSE user_stats
           /\ reply' =
               IF t = BtnMenu
               THEN Sent(c, u, t, "check_quiz_answer", "unused", "choose_action", "main")
               ELSE IF saved \/ db = "down"
               THEN Sent(c, u, t, "check_quiz_answer", db,
                         IF e.is_correct THEN "correct" ELSE "incorrect", "next")
               ELSE Sent(c, u, t, "check_quiz_answer", db, "none", "none")
    /\ UNCHANGED <<common_words, users, user_words>>

check_quiz_answer(c, u, t, db) ==
    /\ next_step[c].fn = "check_quiz_answer"
    /\ next_step' = [next_step EXCEPT ![c] = NoHandler]
    /\ LET correct_answer == next_step[c].correct_answer
           source_type == next_step[c].source_type
           word_id == next_step[c].word_id
           is_correct == (t = correct_answer)
           \* the INSERT commits: a connection, and the row of users that
           \* user_stats.user_id REFERENCES
           saved == db = "ok" /\ users[u] # NoRow
       IN  IF t = BtnMenu
           THEN /\ reply' = Sent(c, u, t, "check_quiz_answer", "unused",
                                 "choose_action", "main")
                /\ user_stats' = user_stats
           ELSE /\ saved => BagCardinality(user_stats) + Len(next_step[c].rest)
                                < MaxStats
                /\ user_stats' =
                    IF saved
                    THEN user_stats (+)
                         SetToBag({[user_id |-> u,
                                    word_id |-> IF source_type = "common"
                                                THEN word_id ELSE 0 - word_id,
                                    is_correct |-> is_correct]})
                         (+) AnswerRows(u, next_step[c].rest, t)
                    ELSE user_stats
                /\ reply' = Sent(c, u, t, "check_quiz_answer", db,
                                 IF is_correct THEN "correct" ELSE "incorrect", "next")
    /\ UNCHANGED <<common_words, users, user_words>>

handle_back_button(c, u, t) ==
    /\ next_step[c] = NoHandler
    /\ Routes[t] = "handle_back_button"
    /\ reply' = Sent(c, u, t, "handle_back_button", "unused", "choose_action", "main")
    /\ UNCHANGED <<common_words, users, user_words, user_stats, next_step>>

(***************************************************************************)
(* Personal dictionary.                                                    *)
(***************************************************************************)
show_my_words(c, u, t, db) ==
    /\ next_step[c] = NoHandler
    /\ Routes[t] = "show_my_words"
    /\ reply' =
        IF db = "down"
        THEN Sent(c, u, t, "show_my_words", db, "db_error", "main")
        ELSE IF db = "error"
        THEN Sent(c, u, t, "show_my_words", db, "list_error", "main")
        ELSE IF ActiveIds(u) = {}
        THEN Sent(c, u, t, "show_my_words", db, "dictionary_empty", "main")
        ELSE [Sent(c, u, t, "show_my_words", db, "dictionary", "main")
                EXCEPT !.word_count = ActiveCount(u)]
    /\ UNCHANGED <<common_words, users, user_words, user_stats, next_step>>

add_word(c, u, t) ==
    /\ next_step[c] = NoHandler
    /\ Routes[t] = "add_word"
    /\ reply' = Sent(c, u, t, "add_word", "unused", "add_prompt", "removed")
    /\ next_step' = [next_step EXCEPT ![c] = [NoHandler EXCEPT !.fn = "process_new_word"]]
    /\ UNCHANGED <<common_words, users, user_words, user_stats>>

process_new_word(c, u, t, db) ==
    /\ next_step[c].fn = "process_new_word"
    /\ next_step' = [next_step EXCEPT ![c] = NoHandler]
    /\ LET text == strip(t)
           english == parts(text)[1]
           russian == parts(text)[2]
       IN  IF ~ParseOk(text)
           THEN \* ValueError
                /\ reply' = Sent(c, u, t, "process_new_word", "unused",
                                 "invalid_format", "main")
                /\ user_words' = user_words
           ELSE IF db = "down"
           THEN \* "if conn:" has no else branch
                /\ reply' = Sent(c, u, t, "process_new_word", db, "none", "none")
                /\ user_words' = user_words
           ELSE IF db = "error"
           THEN /\ reply' = Sent(c, u, t, "process_new_word", db, "add_error", "main")
                /\ user_words' = user_words
           ELSE IF users[u] = NoRow
           THEN \* user_words.user_id REFERENCES users: the INSERT raises
                /\ user_words' = user_words
                /\ reply' = Sent(c, u, t, "process_new_word", db, "add_error", "main")
           ELSE /\ Len(user_words) < MaxUserWords
                /\ user_words' =
                    Append(user_words,
                           [user_word_id |-> Len(user_words) + 1,
                            user_id |-> u,
                            english_word |-> lower(english),
                            russian_translation |-> lower(russian),
                            is_active |-> TRUE])
                /\ reply' = [Sent(c, u, t, "process_new_word", db,
                                  "word_added", "main")
                               EXCEPT !.word = english,
                                      !.word_count = ActiveCount(u) + 1]
    /\ UNCHANGED <<common_words, users, user_stats>>

\* word_dict[english_word] = word_id over the rows of the SELECT, which has
\* no ORDER BY: a headword keeps the id of whichever of its rows comes last
WordDicts(ids) ==
    {d \in SUBSET {<<UserRow(i).english_word, i>> : i \in ids} :
        /\ \A i \in ids : \E e \in d : e[1] = UserRow(i).english_word
        /\ \A e1, e2 \in d : e1[1] = e2[1] => e1 = e2}

EnglishOf(id) == UserRow(id).english_word

\* the bag of the captions of the keyboard: one button per row
Headwords(ids) ==
    [w \in {EnglishOf(i) : i \in ids}
        |-> Cardinality({i \in ids : EnglishOf(i) = w})]

\* word_to_remove in word_dict
InDict(word_dict, word) == \E e \in word_dict : e[1] = word

\* word_dict[word_to_remove]
DictGet(word_dict, word) == (CHOOSE e \in word_dict : e[1] = word)[2]

remove_word(c, u, t, db) ==
    /\ next_step[c] = NoHandler
    /\ Routes[t] = "remove_word"
    /\ IF db = "down"
       THEN /\ reply' = Sent(c, u, t, "remove_word", db, "db_error", "main")
            /\ next_step' = next_step
       ELSE IF db = "error"
       THEN /\ reply' = Sent(c, u, t, "remove_word", db, "list_error", "main")
            /\ next_step' = next_step
       ELSE IF ActiveIds(u) = {}
       THEN /\ reply' = Sent(c, u, t, "remove_word", db, "nothing_to_remove", "main")
            /\ next_step' = next_step
       ELSE \E word_dict \in WordDicts(ActiveIds(u)) :
                /\ reply' = [Sent(c, u, t, "remove_word", db, "choose_word", "words")
                               EXCEPT !.options = Headwords(ActiveIds(u))]
                /\ next_step' =
                    [next_step EXCEPT ![c] =
                        [NoHandler EXCEPT !.fn = "confirm_remove",
                                          !.word_dict = word_dict]]
    /\ UNCHANGED <<common_words, users, user_words, user_stats>>

\* Deactivate without "AND user_id = %s"
DeactivateAnyOwner(id, u) ==
    [i \in DOMAIN user_words |->
        IF user_words[i].user_word_id = id
        THEN [user_words[i] EXCEPT !.is_active = FALSE]
        ELSE user_words[i]]

\* UPDATE user_words SET is_active = FALSE WHERE user_word_id = id AND user_id = u
Deactivate(id, u) ==
    [i \in DOMAIN user_words |->
        IF user_words[i].user_word_id = id /\ user_words[i].user_id = u
        THEN [user_words[i] EXCEPT !.is_active = FALSE]
        ELSE user_words[i]]

\* the number of active words of u once Deactivate(id, u) has run
CountAfterDeactivate(id, u) ==
    Cardinality({i \in DOMAIN user_words :
        Deactivate(id, u)[i].user_id = u /\ Deactivate(id, u)[i].is_active})

confirm_remove(c, u, t, db) ==
    /\ next_step[c].fn = "confirm_remove"
    /\ next_step' = [next_step EXCEPT ![c] = NoHandler]
    /\ LET word_dict == next_step[c].word_dict
       IN  IF t = BtnMenu
           THEN /\ reply' = Sent(c, u, t, "confirm_remove", "unused",
                                 "choose_action", "main")
                /\ user_words' = user_words
           ELSE IF ~InDict(word_dict, t)
           THEN /\ reply' = Sent(c, u, t, "confirm_remove", "unused",
                                 "not_found", "main")
                /\ user_words' = user_words
           ELSE IF db = "down"
           THEN \* "if conn:" has no else branch
                /\ reply' = Sent(c, u, t, "confirm_remove", db, "none", "none")
                /\ user_words' = user_words
           ELSE IF db = "error"
           THEN /\ reply' = Sent(c, u, t, "confirm_remove", db, "remove_error", "main")
                /\ user_words' = user_words
           ELSE /\ user_words' = Deactivate(DictGet(word_dict, t), u)
                /\ reply' = [Sent(c, u, t, "confirm_remove", db, "removed", "main")
                               EXCEPT !.word = t,
                                      !.word_count =
                                          CountAfterDeactivate(DictGet(word_dict, t), u)]
    /\ UNCHANGED <<common_words, users, user_stats>>

(***************************************************************************)
(* Statistics.                                                             *)
(***************************************************************************)
\* Accuracy cut off after the first decimal instead of rounded
AccuracyCutOff(correct_answers, total_answers) ==
    IF total_answers > 0 THEN (correct_answers * 1000) \div total_answers ELSE 0

\* (correct_answers / total_answers * 100) if total_answers > 0 else 0, as
\* the format {accuracy:.1f} prints it, in tenths of a percent: the nearest
\* tenth, an exact half going to the even one
Accuracy(correct_answers, total_answers) ==
    IF total_answers > 0
    THEN LET n == correct_answers * 1000
             q == n \div total_answers
             r == n % total_answers
         IN  IF 2 * r > total_answers \/ (2 * r = total_answers /\ q % 2 = 1)
             THEN q + 1
             ELSE q
    ELSE 0

show_stats(c, u, t, db) ==
    /\ next_step[c] = NoHandler
    /\ Routes[t] = "show_stats"
    /\ reply' =
        IF db = "down"
        THEN Sent(c, u, t, "show_stats", db, "db_error", "main")
        ELSE IF db = "error"
        THEN Sent(c, u, t, "show_stats", db, "stats_error", "main")
        ELSE IF Difficulty(u) \notin Levels
        THEN \* DIFFICULTY_LEVELS[difficulty]: KeyError
             Sent(c, u, t, "show_stats", db, "stats_error", "main")
        ELSE [Sent(c, u, t, "show_stats", db, "stats", "main")
                EXCEPT !.word_count = ActiveCount(u),
                       !.correct_answers = CorrectCount(u),
                       !.total_answers = TotalCount(u),
                       !.accuracy = Accuracy(CorrectCount(u), TotalCount(u))]
    /\ UNCHANGED <<common_words, users, user_words, user_stats, next_step>>

\* the texts handle_text leaves to the other handlers
KnownButtons ==
    {BtnQuiz, BtnWords, BtnAdd, BtnRemove, BtnStats, BtnLevel, BtnHelp, BtnMenu,
     BtnNext}

handle_text(c, u, t) ==
    /\ next_step[c] = NoHandler
    /\ Routes[t] = "handle_text"
    /\ reply' = IF t \notin KnownButtons
                THEN Sent(c, u, t, "handle_text", "unused", "use_menu", "main")
                ELSE Sent(c, u, t, "handle_text", "unused", "none", "none")
    /\ UNCHANGED <<common_words, users, user_words, user_stats, next_step>>

(***************************************************************************)
(* The bot: one message of one member of one chat at a time.               *)
(***************************************************************************)
Handle(c, u, t, D) ==
    \/ \E db \in D : start(c, u, t, db)
    \/ show_help(c, u, t)
    \/ \E db \in D : show_difficulty_menu(c, u, t, db)
    \/ \E db \in D : set_difficulty_level(c, u, t, db)
    \/ \E db \in D : start_quiz(c, u, t, db)
    \/ \E db \in D : check_quiz_answer(c, u, t, db)
    \/ handle_back_button(c, u, t)
    \/ \E db \in D : show_my_words(c, u, t, db)
    \/ add_word(c, u, t)
    \/ \E db \in D : process_new_word(c, u, t, db)
    \/ \E db \in D : remove_word(c, u, t, db)
    \/ \E db \in D : confirm_remove(c, u, t, db)
    \/ \E db \in D : show_stats(c, u, t, db)
    \/ handle_text(c, u, t)

\* the messages of the senders S under the database outcomes D
Messages(S, D) == \E s \in S : \E t \in Texts : Handle(s[1], s[2], t, D)

\* one user and the bot in a private chat
Next == Messages({<<"c1", "u1">>}, DbOutcomes)

Spec == Init /\ [][Next]_vars

\* the handlers of registration and of the personal dictionary
Dictionary(c, u, t, D) ==
    \/ \E db \in D : start(c, u, t, db)
    \/ \E db \in D : show_my_words(c, u, t, db)
    \/ add_word(c, u, t)
    \/ \E db \in D : process_new_word(c, u, t, db)
    \/ \E db \in D : remove_word(c, u, t, db)
    \/ \E db \in D : confirm_remove(c, u, t, db)

\* two users, a private chat and a group chat, at work on their dictionaries
NextDict == \E s \in Senders : \E t \in Texts : Dictionary(s[1], s[2], t, DbOutcomes)

SpecDict == Init /\ [][NextDict]_vars

(***************************************************************************)
(* The quiz of one user in a private chat, quiz buttons that telebot       *)
(* dispatches together included.                                           *)
(***************************************************************************)
Quiz(c, u, t, D) ==
    \/ \E db \in D : start(c, u, t, db)
    \/ \E db \in D : start_quiz(c, u, t, db)
    \/ \E db \in D : start_quiz_together(c, u, t, db)
    \/ \E db \in D : check_quiz_answer(c, u, t, db)

NextQuiz == \E t \in Texts : Quiz("c1", "u1", t, DbOutcomes)

SpecQuiz == Init /\ [][NextQuiz]_vars

(***************************************************************************)
(* Two registered users of one difficulty, in a private chat and a group   *)
(* chat, the database at work: they add and remove words and start         *)
(* quizzes, and leave each question by the main menu button.               *)
(***************************************************************************)
InitWords ==
    /\ common_words = SeedWords
    /\ users \in {[u \in Users |-> d] : d \in Levels}
    /\ user_words = <<>>
    /\ user_stats = EmptyBag
    /\ next_step = [c \in Chats |-> NoHandler]
    /\ reply = Sent("c1", "u1", <<>>, "none", "unused", "none", "none")

Words(c, u) ==
    \/ \E t \in Texts : add_word(c, u, t)
    \/ \E t \in Texts : process_new_word(c, u, t, "ok")
    \/ \E t \in Texts : remove_word(c, u, t, "ok")
    \/ \E t \in Texts : confirm_remove(c, u, t, "ok")
    \/ start_quiz(c, u, BtnQuiz, "ok")
    \/ check_quiz_answer(c, u, BtnMenu, "ok")

NextWords == \E s \in Senders : Words(s[1], s[2])

SpecWords == InitWords /\ [][NextWords]_vars

(***************************************************************************)
(* Two registered users in the group chat, the database at work: they add  *)
(* and remove words, start quizzes and answer them.                        *)
(***************************************************************************)
InitHistory ==
    /\ common_words = SeedWords
    /\ users = [u \in Users |-> "medium"]
    /\ user_words = <<>>
    /\ user_stats = EmptyBag
    /\ next_step = [c \in Chats |-> NoHandler]
    /\ reply = Sent("c1", "u1", <<>>, "none", "unused", "none", "none")

History(c, u) ==
    \/ \E t \in Texts : add_word(c, u, t)
    \/ \E t \in Texts : process_new_word(c, u, t, "ok")
    \/ \E t \in Texts : remove_word(c, u, t, "ok")
    \/ \E t \in Texts : confirm_remove(c, u, t, "ok")
    \/ start_quiz(c, u, BtnQuiz, "ok")
    \/ \E t \in {<<"k">>, BtnMenu} : check_quiz_answer(c, u, t, "ok")

NextHistory == \E u \in Users : History("g", u)

SpecHistory == InitHistory /\ [][NextHistory]_vars

(***************************************************************************)
(* show_stats over the answer histories: user u1 with any number of        *)
(* correct and incorrect answers, user u2 with one answer or none.         *)
(***************************************************************************)
\* highest number of answers of one user in the histories
MaxAnswered == 16

StatsRow(u, is_correct) == [user_id |-> u, word_id |-> 1, is_correct |-> is_correct]

\* the table with a correct and b incorrect answers of u1, d answers of u2
StatsTable(a, b, d) ==
    [e \in {StatsRow("u1", TRUE) : x \in 1..a}
           \cup {StatsRow("u1", FALSE) : x \in 1..b}
           \cup {StatsRow("u2", TRUE) : x \in 1..d}
        |-> IF e.user_id = "u2" THEN d ELSE IF e.is_correct THEN a ELSE b]

InitStats ==
    /\ common_words = SeedWords
    /\ users = [u \in Users |-> "medium"]
    /\ user_words = <<>>
    /\ user_stats \in {StatsTable(a, b, d) :
                          a \in 0..MaxAnswered, b \in 0..MaxAnswered, d \in 0..1}
    /\ BagCardinality(user_stats) <= MaxAnswered + 1
    /\ next_step = [c \in Chats |-> NoHandler]
    /\ reply = Sent("c1", "u1", <<>>, "none", "unused", "none", "none")

NextStats ==
    \E s \in Senders : \E db \in DbOutcomes : show_stats(s[1], s[2], BtnStats, db)

SpecStats == InitStats /\ [][NextStats]_vars

(***************************************************************************)
(* The handlers that read users.difficulty, over a table users that the    *)
(* bot did not fill alone: rows as start and set_difficulty_level write    *)
(* them, next to rows with a NULL or with a text that is no level.         *)
(***************************************************************************)
InitTier ==
    /\ common_words = SeedWords
    /\ users \in {[u \in Users |-> IF u = "u1" THEN d ELSE NoRow] :
                    d \in StoredTiers \cup {NoRow}}
    /\ user_words = <<>>
    /\ user_stats = EmptyBag
    /\ next_step = [c \in Chats |-> NoHandler]
    /\ reply = Sent("c1", "u1", <<>>, "none", "unused", "none", "none")

Tier(c, u, t, D) ==
    \/ \E db \in D : show_difficulty_menu(c, u, t, db)
    \/ \E db \in D : set_difficulty_level(c, u, t, db)
    \/ \E db \in D : start_quiz(c, u, t, db)
    \/ \E db \in D : check_quiz_answer(c, u, t, db)
    \/ \E db \in D : show_stats(c, u, t, db)

NextTier == \E t \in Texts : Tier("c1", "u1", t, {"ok", "down"})

SpecTier == InitTier /\ [][NextTier]_vars

(***************************************************************************)
(* Properties.                                                             *)
(***************************************************************************)
\* the difficulty start_quiz reads for user u
StoredTier(u) == IF users[u] \in {NoRow, NullTier} THEN "medium" ELSE users[u]

\* C1: the options of every question start_quiz presents are pairwise
\* distinct strings.
C1_NoDuplicateOptions ==
    reply.msg = "question" =>
        \A o \in BagToSet(reply.options) : CopiesIn(o, reply.options) = 1

\* C2: the options of every question start_quiz presents contain the correct
\* translation of the question exactly once.
C2_CorrectOnce ==
    reply.msg = "question" =>
        CopiesIn(next_step[reply.chat].correct_answer, reply.options) = 1

\* a question on a common word whose translation an active personal word of
\* the user carries as well
C2_Witness ==
    /\ reply.msg = "question"
    /\ next_step[reply.chat].source_type = "common"
    /\ \E r \in Range(user_words) :
        /\ r.user_id = reply.user
        /\ r.is_active
        /\ r.russian_translation = next_step[reply.chat].correct_answer
    /\ BagCardinality(reply.options) = 3

\* C3: a question word taken from common_words satisfies the category filter
\* of the difficulty stored for the user: easy admits colors, pronouns and
\* numbers only, medium everything but difficult words.
C3_TierFilter ==
    (reply.msg = "question" /\ next_step[reply.chat].source_type = "common") =>
        LET word_type == common_words[next_step[reply.chat].word_id].word_type
        IN  /\ StoredTier(reply.user) = "easy" =>
                word_type \in {"color", "pronoun", "number"}
            /\ StoredTier(reply.user) = "medium" => word_type # "difficult"

\* a user on easy is asked a common word
C3_Witness ==
    /\ reply.msg = "question"
    /\ next_step[reply.chat].source_type = "common"
    /\ users[reply.user] = "easy"

\* C4: start_quiz answers "no words" exactly when the common words its
\* difficulty admits and the active personal words of the user are both
\* empty, and then registers no question and stores no answer; otherwise it
\* asks a question, on a common word when the user has no active personal word.
C4_NoWordsAvailable ==
    [][(reply'.handler = "start_quiz" /\ reply'.db = "ok") =>
        LET u == reply'.user
            c == reply'.chat
            shared == {i \in CommonIds :
                \/ StoredTier(u) = "hard"
                \/ StoredTier(u) = "medium" /\ common_words[i].word_type # "difficult"
                \/ StoredTier(u) = "easy" /\ common_words[i].word_type
                                                \in {"color", "pronoun", "number"}}
            personal == {r \in Range(user_words) : r.user_id = u /\ r.is_active}
        IN  /\ reply'.msg = "no_words" <=> (shared = {} /\ personal = {})
            /\ reply'.msg = "no_words" =>
                /\ reply'.keyboard = "main"
                /\ next_step'[c] = NoHandler
                /\ user_stats' = user_stats
            /\ reply'.msg # "no_words" =>
                /\ reply'.msg = "question"
                /\ next_step'[c].fn = "check_quiz_answer"
                /\ personal = {} => next_step'[c].source_type = "common"
      ]_vars

\* a registered user on easy finds no word to be asked
C4_Witness ==
    /\ reply.handler = "start_quiz"
    /\ reply.msg = "no_words"
    /\ users[reply.user] = "easy"

\* C5: every answer to a pending question stores exactly one row for the
\* answering user, with word_id the id of a common word or minus the id of a
\* personal word; no stored word_id is 0 and its sign tells the table.
C5_AnswerAppendsEvent ==
    [][(/\ reply'.handler = "check_quiz_answer"
        /\ reply'.msg \in {"correct", "incorrect"}
        /\ reply'.db = "ok") =>
        LET h == next_step[reply'.chat]
            e == [user_id |-> reply'.user,
                  word_id |-> IF h.source_type = "common"
                              THEN h.word_id ELSE 0 - h.word_id,
                  is_correct |-> reply'.msg = "correct"]
        IN  /\ user_stats' = user_stats (+) SetToBag({e})
            /\ \A x \in BagToSet(user_stats') :
                /\ x.word_id # 0
                /\ x.word_id > 0 => x.word_id \in CommonIds
                /\ x.word_id < 0 =>
                    \E r \in Range(user_words) : r.user_word_id = 0 - x.word_id
      ]_vars

\* C6: an answer is correct exactly when its text equals the correct
\* translation of the question, character by character, and every answer
\* adds a row to the history.
C6_ExactMatch ==
    [][(/\ reply'.handler = "check_quiz_answer"
        /\ reply'.msg \in {"correct", "incorrect"}) =>
        /\ reply'.msg = "correct" <=>
            /\ Len(reply'.text) = Len(next_step[reply'.chat].correct_answer)
            /\ \A i \in 1..Len(reply'.text) :
                reply'.text[i] = next_step[reply'.chat].correct_answer[i]
        /\ reply'.db = "ok" =>
            BagCardinality(user_stats') = BagCardinality(user_stats) + 1
      ]_vars

\* the number of rows of user_stats among S
RECURSIVE C7_Copies(_)
C7_Copies(S) ==
    IF S = {} THEN 0
    ELSE LET e == CHOOSE x \in S : TRUE
         IN  CopiesIn(e, user_stats) + C7_Copies(S \ {e})

C7_Correct(u) ==
    C7_Copies({e \in BagToSet(user_stats) : e.user_id = u /\ e.is_correct})

C7_Total(u) == C7_Copies({e \in BagToSet(user_stats) : e.user_id = u})

\* C7: show_stats reports the number of correct rows and of all rows of the
\* user in user_stats, and as accuracy the tenth of a percent nearest to
\* correct * 100 / total, 0 when there is no row; 1 of 2 is 50.0.
C7_Stats ==
    reply.msg = "stats" =>
        LET correct == C7_Correct(reply.user)
            total == C7_Total(reply.user)
            diff == reply.accuracy * total - 1000 * correct
        IN  /\ reply.correct_answers = correct
            /\ reply.total_answers = total
            /\ total = 0 => reply.accuracy = 0
            /\ total > 0 => (2 * diff <= total /\ 0 - 2 * diff <= total)
            /\ (correct = 1 /\ total = 2) => reply.accuracy = 500

\* one correct and one incorrect answer: 50.0
C7_Witness ==
    /\ reply.msg = "stats"
    /\ C7_Correct(reply.user) = 1
    /\ C7_Total(reply.user) = 2
    /\ reply.accuracy = 500

\* every character of s is a blank
C8_Blank(s) == \A i \in 1..Len(s) : s[i] = Space

\* t has no '-', or nothing but blanks before or after its first '-'
C8_Malformed(t) ==
    \/ \A i \in 1..Len(t) : t[i] # Dash
    \/ \E i \in 1..Len(t) :
        /\ t[i] = Dash
        /\ \A j \in 1..(i - 1) : t[j] # Dash
        /\ \/ C8_Blank(SubSeq(t, 1, i - 1))
           \/ C8_Blank(SubSeq(t, i + 1, Len(t)))

\* C8: process_new_word on a text without '-', or with an empty part before
\* or after the first '-', answers "wrong format" with the main menu and
\* leaves user_words as it is.
C8_InvalidFormat ==
    [][(reply'.handler = "process_new_word" /\ C8_Malformed(reply'.text)) =>
        /\ reply'.msg = "invalid_format"
        /\ reply'.keyboard = "main"
        /\ user_words' = user_words
      ]_vars

\* a registered user sends a headword with an empty translation
C8_Witness ==
    /\ reply.handler = "process_new_word"
    /\ reply.text = <<"a", Dash, Space>>
    /\ reply.msg = "invalid_format"
    /\ users[reply.user] # NoRow

\* C9: a word added and then removed by its lowercased headword leaves the
\* number of active words of the user where it was before the word was
\* added: the addition the bot confirms raises it by one, and the removal of
\* that headword the bot confirms to the same user next lowers it by one.
C9_RoundTrip ==
    [][\A u \in Users :
        /\ (reply'.msg = "word_added" /\ reply'.user = u) =>
            ActiveCount(u)' = ActiveCount(u) + 1
        /\ (/\ reply.msg = "word_added"
            /\ reply.user = u
            /\ reply'.msg = "removed"
            /\ reply'.user = u
            /\ reply'.text = lower(reply.word)) =>
            ActiveCount(u)' = ActiveCount(u) - 1
      ]_vars

\* C10: confirm_remove answers "not found" and removes nothing whenever the
\* word it is sent is not an active word of the sender at that moment.
C10_NotFound ==
    [][(/\ reply'.handler = "confirm_remove"
        /\ reply'.text # BtnMenu
        /\ reply'.db \in {"ok", "unused"}
        /\ ~\E r \in Range(user_words) :
              /\ r.user_id = reply'.user
              /\ r.is_active
              /\ r.english_word = reply'.text) =>
        /\ reply'.msg = "not_found"
        /\ user_words' = user_words
      ]_vars

\* C11: whenever start, start_quiz, check_quiz_answer, process_new_word,
\* confirm_remove, show_stats or set_difficulty_level finds the database
\* unavailable or a query failing, the bot sends a message with the main menu.
C11_NoSilentFailure ==
    (/\ reply.handler \in {"start", "start_quiz", "check_quiz_answer",
                           "process_new_word", "confirm_remove", "show_stats",
                           "set_difficulty_level"}
     /\ reply.db \in {"down", "error"}) =>
        /\ reply.msg # "none"
        /\ reply.keyboard = "main"

\* C12: whatever the database does, an answer to a pending question gets the
\* feedback that the comparison of the reply with the correct translation
\* gives, with the keyboard to go on, and the pending question is gone.
C12_FeedbackIsolated ==
    [][(reply'.handler = "check_quiz_answer" /\ reply'.text # BtnMenu) =>
        /\ reply'.msg = IF reply'.text = next_step[reply'.chat].correct_answer
                        THEN "correct" ELSE "incorrect"
        /\ reply'.keyboard = "next"
        /\ next_step'[reply'.chat] = NoHandler
      ]_vars

\* the right answer is praised although the INSERT raised
C12_Witness ==
    /\ reply.handler = "check_quiz_answer"
    /\ reply.db = "error"
    /\ reply.msg = "correct"
    /\ user_stats = EmptyBag

\* C13: the first message of a user that reaches the database creates the
\* row of the user in users, with difficulty medium, whichever handler it is.
C13_CreatedOnFirstContact ==
    [][(/\ reply'.handler # "none"
        /\ reply'.db = "ok"
        /\ users[reply'.user] = NoRow) =>
        users'[reply'.user] = "medium"
      ]_vars

\* C16: a menu button sent while a question is pending abandons the question:
\* the pending question is cleared and user_stats stays as it is.
C16_NavigationAbandons ==
    [][(/\ reply'.handler = "check_quiz_answer"
        /\ reply'.text \in {BtnMenu, BtnQuiz, BtnWords, BtnAdd, BtnRemove,
                            BtnStats, BtnLevel, BtnHelp}) =>
        /\ next_step'[reply'.chat] = NoHandler
        /\ user_stats' = user_stats
      ]_vars

\* C14: a stored difficulty that is no level makes the handlers that resolve
\* it fail, never go on as under medium; a missing row of users and a NULL
\* difficulty resolve to medium: the level menu marks medium, start_quiz
\* selects as under medium, show_stats reports.
C14_TierResolution ==
    (/\ reply.handler \in {"show_difficulty_menu", "start_quiz", "show_stats"}
     /\ reply.db = "ok") =>
        LET stored == users[reply.user]
        IN  /\ stored \notin Levels \cup {NoRow, NullTier} =>
                reply.msg \in {"level_error", "quiz_error", "stats_error"}
            /\ stored \in {NoRow, NullTier} =>
                /\ reply.handler = "show_difficulty_menu" =>
                    /\ reply.msg = "level_menu"
                    /\ BagIn(<<CheckMark>> \o DIFFICULTY_LEVELS["medium"].name,
                             reply.options)
                /\ reply.handler = "start_quiz" =>
                    /\ reply.msg \in {"question", "no_words"}
                    /\ reply.msg = "question" => reply.word # <<"abundance">>
                /\ reply.handler = "show_stats" => reply.msg = "stats"

\* C15: a chat has at most one question pending, a quiz button sent while
\* one is pending starts no second one, and one reply stores at most one
\* answer.
C15_OnePendingQuestion ==
    [][/\ \A c \in Chats : next_step'[c].rest = <<>>
       /\ BagCardinality(user_stats') <= BagCardinality(user_stats) + 1
      ]_vars

\* C17: the personal word a question asks for, and every personal word a
\* wrong option is taken from, is at that moment an active word of the user
\* who started the quiz; and under every difficulty each active word of a
\* user is among the words the question is drawn from.
C17_PersonalPool ==
    /\ (reply.handler = "start_quiz" /\ reply.msg = "question") =>
        LET mine == {r \in Range(user_words) :
                        r.user_id = reply.user /\ r.is_active}
        IN  /\ next_step[reply.chat].source_type = "user" =>
                \E r \in mine : r.user_word_id = next_step[reply.chat].word_id
            /\ \A w \in reply.wrong :
                w[1] = "user" => \E r \in mine : r.user_word_id = w[2]
    /\ \A u \in Users, d \in Levels :
        \A r \in Range(user_words) :
            (r.user_id = u /\ r.is_active) =>
                \A cs \in SampleRows(CommonEligible(d), DIFFICULTY_LEVELS[d].words_limit),
                   us \in SampleRows(ActiveIds(u), DIFFICULTY_LEVELS[d].words_limit) :
                    <<"user", r.user_word_id>> \in CombinedWords(cs, us)

\* on easy, a user is asked a word of their own while the other user has an
\* active word too
C17_Witness ==
    /\ reply.handler = "start_quiz"
    /\ reply.msg = "question"
    /\ users[reply.user] = "easy"
    /\ next_step[reply.chat].source_type = "user"
    /\ \E r \in Range(user_words) : r.user_id # reply.user /\ r.is_active

\* the small letter of each capital letter of the alphabet
C18_Small == [A |-> "a", B |-> "b", K |-> "k", Z |-> "z"]

\* w is s without the blanks around it, in small letters
C18_Canonical(s, w) ==
    \E i, j \in 1..Len(s) :
        /\ s[i] # Space /\ s[j] # Space
        /\ \A k \in 1..(i - 1) : s[k] = Space
        /\ \A k \in (j + 1)..Len(s) : s[k] = Space
        /\ Len(w) = j - i + 1
        /\ \A k \in 1..Len(w) :
            w[k] = IF s[i + k - 1] \in DOMAIN C18_Small
                   THEN C18_Small[s[i + k - 1]] ELSE s[i + k - 1]

\* C18: every word the bot confirms as added is one new row of user_words,
\* active, of the sender, holding the text before and the text after the
\* first '-' without the blanks around them and in small letters, whether or
\* not the user has that headword already; the number the bot reports is the
\* number of active words of the sender before, plus 1; no other row changes.
C18_AddCreatesRow ==
    [][reply'.msg = "word_added" =>
        LET raw == reply'.text
            row == user_words'[Len(user_words')]
        IN  /\ Len(user_words') = Len(user_words) + 1
            /\ \A i \in 1..Len(user_words) : user_words'[i] = user_words[i]
            /\ row.user_id = reply'.user
            /\ row.is_active
            /\ \A i \in 1..Len(user_words) :
                user_words[i].user_word_id # row.user_word_id
            /\ \E d \in 1..Len(raw) :
                /\ raw[d] = Dash
                /\ \A k \in 1..(d - 1) : raw[k] # Dash
                /\ C18_Canonical(SubSeq(raw, 1, d - 1), row.english_word)
                /\ C18_Canonical(SubSeq(raw, d + 1, Len(raw)), row.russian_translation)
            /\ reply'.word_count =
                Cardinality({i \in 1..Len(user_words) :
                    user_words[i].user_id = reply'.user /\ user_words[i].is_active}) + 1
      ]_vars

\* a user adds "A - K" a second time
C18_Witness ==
    /\ reply.msg = "word_added"
    /\ reply.text = <<"A", Space, Dash, Space, "K">>
    /\ Len(user_words) = 2
    /\ \A i \in 1..2 :
        /\ user_words[i].user_id = reply.user
        /\ user_words[i].is_active
        /\ user_words[i].english_word = <<"a">>
    /\ reply.word_count = 2

\* C19: no step takes a row out of user_stats or out of user_words or
\* changes one, except that confirm_remove turns is_active of a row of its
\* sender from TRUE to FALSE; confirm_remove leaves user_stats as it is, and
\* every negative word_id in user_stats is the id of a row of user_words.
C19_HistoryOnlyGrows ==
    [][/\ \A e \in BagToSet(user_stats) :
            CopiesIn(e, user_stats') >= CopiesIn(e, user_stats)
       /\ Len(user_words') >= Len(user_words)
       /\ \A i \in 1..Len(user_words) :
            \/ user_words'[i] = user_words[i]
            \/ /\ user_words'[i] = [user_words[i] EXCEPT !.is_active = FALSE]
               /\ user_words[i].is_active
               /\ reply'.handler = "confirm_remove"
               /\ user_words[i].user_id = reply'.user
       /\ reply'.handler = "confirm_remove" => user_stats' = user_stats
       /\ \A e \in BagToSet(user_stats') :
            e.word_id < 0 =>
                \E i \in 1..Len(user_words') :
                    user_words'[i].user_word_id = 0 - e.word_id
      ]_vars

\* a word is removed that an answer in user_stats refers to, while the
\* other user keeps an active word
C19_Witness ==
    /\ reply.msg = "removed"
    /\ \E i \in 1..Len(user_words) :
        /\ ~user_words[i].is_active
        /\ user_words[i].user_id = reply.user
        /\ \E e \in BagToSet(user_stats) :
            e.word_id = 0 - user_words[i].user_word_id
    /\ \E i \in 1..Len(user_words) :
        user_words[i].is_active /\ user_words[i].user_id # reply.user

\* C20: once set_difficulty_level has confirmed a level to a user, that level
\* is the difficulty stored for the user; the stored difficulty changes only
\* in set_difficulty_level of that user and when start creates the row; and
\* a question on a common word meets the filter of the stored difficulty.
C20_TierPersists ==
    [][\A u \in Users :
        /\ (reply'.msg = "level_set" /\ reply'.user = u) =>
            \E k \in Levels :
                /\ reply'.text \in {DIFFICULTY_LEVELS[k].name,
                                    <<CheckMark>> \o DIFFICULTY_LEVELS[k].name}
                /\ users'[u] = k
        /\ users'[u] # users[u] =>
            /\ reply'.user = u
            /\ \/ reply'.handler = "set_difficulty_level"
               \/ /\ reply'.handler = "start"
                  /\ users[u] = NoRow
                  /\ users'[u] = "medium"
        /\ (/\ reply'.handler = "start_quiz"
            /\ reply'.msg = "question"
            /\ reply'.user = u
            /\ users[u] \in Levels
            /\ next_step'[reply'.chat].source_type = "common") =>
            LET word_type == common_words[next_step'[reply'.chat].word_id].word_type
            IN  /\ users[u] = "easy" => word_type \in {"color", "pronoun", "number"}
                /\ users[u] = "medium" => word_type # "difficult"
      ]_vars

\* C21: the row an answer adds to user_stats carries the id of the user the
\* question was selected for, and a negative word_id in it is the id of a
\* word of that user: a reply of another member of the chat stores no row
\* under the id of the replier that refers to a word of the one who asked.
C21_AnswerOfTheAsker ==
    [][reply'.handler = "check_quiz_answer" =>
        \A e \in BagToSet(user_stats') :
            CopiesIn(e, user_stats') > CopiesIn(e, user_stats) =>
                /\ (/\ reply.handler = "start_quiz"
                    /\ reply.msg = "question"
                    /\ reply.chat = reply'.chat) => e.user_id = reply.user
                /\ e.word_id < 0 =>
                    \E i \in 1..Len(user_words) :
                        /\ user_words[i].user_word_id = 0 - e.word_id
                        /\ user_words[i].user_id = e.user_id
      ]_vars

====
